---- MODULE Spec2Model ----
(***************************************************************************)
(* Model of user_management/api/serializers.py: the Django REST framework *)
(* serializers for registration, user creation, password change, password *)
(* reset, profile update and resending the confirmation email.            *)
(*                                                                         *)
(* `users` is the account table.  `instance` is the in-memory account     *)
(* object the last serializer holds after is_valid()/save(); `user` is    *)
(* the `user` attribute of ResendConfirmationEmailSerializer; `result` is *)
(* the last submission: its payload, the instance it was given, the key   *)
(* it looked up and the errors it raised.                                 *)
(***************************************************************************)
EXTENDS Integers, Sequences, FiniteSets

VARIABLES users, instance, user, result, clock

vars == <<users, instance, user, result, clock>>

\* ---------------------------------------------------------------- bounds
MaxUsers == 2

\* ------------------------------------------------------------ input sets
LocalParts == {"a", "A", "b"}

Emails == {<<c, "@", "x">> : c \in LocalParts}

Names == {"n1", "n2"}

Salts == {"s1"}

\* A raw password: its identity, its length and whether the strength policy
\* accepts it.
Passwords ==
    { [id |-> 1, len |-> 8, strong |-> TRUE],
      [id |-> 2, len |-> 9, strong |-> TRUE],
      [id |-> 3, len |-> 7, strong |-> TRUE],
      [id |-> 4, len |-> 8, strong |-> FALSE] }

BlankPassword == [id |-> 0, len |-> 0, strong |-> FALSE]

\* Dates a caller may submit; accounts are created at dates 1, 2, ...
SubmittedDates == {0}

\* --------------------------------------------------------- program texts
min_length == 8

AlreadyRegistered == "That email address has already been registered."

PasswordsDoNotMatch == "Your passwords do not match."

InvalidPassword == "Invalid password."

NewPasswordsDoNotMatch == "Your new passwords do not match."

DoesNotExist == "A user with this email address does not exist."

AlreadyVerified == "User email address is already verified."

MinLengthMessage == "Ensure this field has at least 8 characters."

WeakPassword == "Password is too weak."

\* ------------------------------------------------------------- sentinels
NoEmail == <<>>

NoPassword == [hashed |-> FALSE, salt |-> "", raw |-> BlankPassword]

NoInstance ==
    [pk |-> 0, name |-> "", email |-> NoEmail, password |-> NoPassword,
     date_joined |-> 0, email_verification_required |-> FALSE]

NoData == [none |-> TRUE]

\* No submission is being handled.
NoResult ==
    [op |-> "none", data |-> NoData, before |-> NoInstance,
     natural_key |-> NoEmail, email |-> NoEmail, errors |-> {}]

\* ------------------------------------------------------ string functions
LowerChar(c) == CASE c = "A" -> "a" [] c = "B" -> "b" [] OTHER -> c

\* str.lower()
lower(value) == [i \in DOMAIN value |-> LowerChar(value[i])]

\* ------------------------------------------------------ password hashing
\* The stored password string: an encoded salted hash, or whatever string was
\* assigned to the attribute.
make_password(raw, salt) == [hashed |-> TRUE, salt |-> salt, raw |-> raw]

PlainText(raw) == [hashed |-> FALSE, salt |-> "", raw |-> raw]

\* instance.check_password(raw): a stored string that is not an encoded hash
\* verifies nothing.
check_password(stored, raw) == stored.hashed /\ stored.raw = raw

set_password(inst, raw, salt) ==
    [inst EXCEPT !.password = make_password(raw, salt)]

validate_password_strength(value) ==
    IF value.strong THEN {} ELSE {WeakPassword}

\* ------------------------------------------------------------ the table
\* User.objects.get_by_natural_key(key): the accounts whose email is key
\* (none: User.DoesNotExist).
get_by_natural_key(table, key) == {u \in table : u.email = key}

ByPk(table, pk) == CHOOSE u \in table : u.pk = pk

\* User.objects.create(**attrs): the attributes are stored as given.
ObjectsCreate(attrs, now) ==
    [pk |-> now, name |-> attrs.name, email |-> attrs.email,
     password |-> attrs.password, date_joined |-> now,
     email_verification_required |-> TRUE]

\* instance.save()
SaveRow(table, inst) == {u \in table : u.pk # inst.pk} \cup {inst}

\* ------------------------------------------------------ field validation
\* CharField(min_length=..., validators=[...])
CharFieldErrors(field, value, minLen, validators) ==
    (IF value.len < minLen THEN {<<field, MinLengthMessage>>} ELSE {})
    \cup {<<field, m>> : m \in validators}

\* ValidateEmailMixin.validate_email: the key looked up.
MixinLookupKeyNoLower(value) == value

MixinLookupKey(value) == lower(value)

\* ValidateEmailMixin.validate_email: errors raised.
MixinEmailErrors(table, value) ==
    IF get_by_natural_key(table, MixinLookupKey(value)) = {}
    THEN {}
    ELSE {<<"email", AlreadyRegistered>>}

\* ValidateEmailMixin.validate_email: value returned.
MixinEmailValue(table, value) ==
    IF MixinEmailErrors(table, value) = {} THEN MixinLookupKey(value)
    ELSE NoEmail

\* --------------------------------------------------- RegistrationSerializer
RegistrationFieldErrors(table, data) ==
    MixinEmailErrors(table, data.email)
    \cup CharFieldErrors("password", data.password, min_length,
                         validate_password_strength(data.password))
    \cup CharFieldErrors("password2", data.password2, min_length, {})

RegistrationValidateNoCheck(attrs) == {}

RegistrationValidate(attrs) ==
    IF attrs.password2 # attrs.password
    THEN {<<"password2", PasswordsDoNotMatch>>}
    ELSE {}

\* is_valid(): field errors stop the run before validate().
RegistrationErrors(table, data) ==
    IF RegistrationFieldErrors(table, data) # {}
    THEN RegistrationFieldErrors(table, data)
    ELSE RegistrationValidate(data)

RegistrationCreate(validated_data, now) == ObjectsCreate(validated_data, now)

Register(data) ==
    LET errors == RegistrationErrors(users, data)
        attrs  == [name |-> data.name,
                   email |-> MixinEmailValue(users, data.email),
                   password |-> PlainText(data.password)]
        new    == RegistrationCreate(attrs, clock + 1)
    IN  /\ result = NoResult
        /\ clock < MaxUsers
        /\ result' = [op |-> "register", data |-> data, before |-> NoInstance,
                      natural_key |-> MixinLookupKey(data.email),
                      email |-> MixinEmailValue(users, data.email),
                      errors |-> errors]
        /\ user' = NoInstance
        /\ IF errors = {}
           THEN /\ users' = users \cup {new}
                /\ instance' = new
                /\ clock' = clock + 1
           ELSE /\ instance' = NoInstance
                /\ UNCHANGED <<users, clock>>

\* ---------------------------------------------------- UserSerializerCreate
\* ModelSerializer.create for fields name and email; the password attribute
\* keeps the model's blank default.
UserCreate(data) ==
    LET errors == MixinEmailErrors(users, data.email)
        attrs  == [name |-> data.name,
                   email |-> MixinEmailValue(users, data.email),
                   password |-> NoPassword]
        new    == ObjectsCreate(attrs, clock + 1)
    IN  /\ result = NoResult
        /\ clock < MaxUsers
        /\ result' = [op |-> "user_create", data |-> data,
                      before |-> NoInstance,
                      natural_key |-> MixinLookupKey(data.email),
                      email |-> MixinEmailValue(users, data.email),
                      errors |-> errors]
        /\ user' = NoInstance
        /\ IF errors = {}
           THEN /\ users' = users \cup {new}
                /\ instance' = new
                /\ clock' = clock + 1
           ELSE /\ instance' = NoInstance
                /\ UNCHANGED <<users, clock>>

\* ------------------------------------------------- PasswordChangeSerializer
NewPasswordFieldErrors(data) ==
    CharFieldErrors("new_password", data.new_password, min_length,
                    validate_password_strength(data.new_password))
    \cup CharFieldErrors("new_password2", data.new_password2, min_length, {})

PasswordChangeValidateNoCheck(attrs) == {}

PasswordChangeValidate(attrs) ==
    IF attrs.new_password # attrs.new_password2
    THEN {<<"new_password2", NewPasswordsDoNotMatch>>}
    ELSE {}

\* update(): the errors raised and the instance as update() leaves it.
PasswordChangeUpdateNoCheck(inst, validated_data, salt) ==
    [errors |-> {},
     instance |-> set_password(inst, validated_data.new_password, salt)]

PasswordChangeUpdateSetFirst(inst, validated_data, salt) ==
    [errors |-> IF ~check_password(inst.password,
                                   validated_data.old_password)
                THEN {<<"old_password", InvalidPassword>>} ELSE {},
     instance |-> set_password(inst, validated_data.new_password, salt)]

PasswordChangeUpdate(inst, validated_data, salt) ==
    IF ~check_password(inst.password, validated_data.old_password)
    THEN [errors |-> {<<"old_password", InvalidPassword>>}, instance |-> inst]
    ELSE [errors |-> {},
          instance |-> set_password(inst, validated_data.new_password, salt)]

\* is_valid() then save(): update() runs only on valid data and does not
\* call instance.save().
PasswordChange(inst, data, salt) ==
    LET invalid == IF NewPasswordFieldErrors(data) # {}
                   THEN NewPasswordFieldErrors(data)
                   ELSE PasswordChangeValidate(data)
        updated == PasswordChangeUpdate(inst, data, salt)
    IN  /\ result = NoResult
        /\ result' = [op |-> "password_change", data |-> data,
                      before |-> inst, natural_key |-> NoEmail,
                      email |-> NoEmail,
                      errors |-> IF invalid # {} THEN invalid
                                 ELSE updated.errors]
        /\ instance' = IF invalid # {} THEN inst ELSE updated.instance
        /\ user' = NoInstance
        /\ UNCHANGED <<users, clock>>

\* -------------------------------------------------- PasswordResetSerializer
PasswordResetValidateNoCheck(attrs) == {}

PasswordResetValidate(attrs) ==
    IF attrs.new_password # attrs.new_password2
    THEN {<<"new_password2", NewPasswordsDoNotMatch>>}
    ELSE {}

PasswordResetUpdate(inst, validated_data, salt) ==
    set_password(inst, validated_data.new_password, salt)

PasswordReset(inst, data, salt) ==
    LET invalid == IF NewPasswordFieldErrors(data) # {}
                   THEN NewPasswordFieldErrors(data)
                   ELSE PasswordResetValidate(data)
    IN  /\ result = NoResult
        /\ result' = [op |-> "password_reset", data |-> data,
                      before |-> inst, natural_key |-> NoEmail,
                      email |-> NoEmail, errors |-> invalid]
        /\ instance' = IF invalid # {} THEN inst
                       ELSE PasswordResetUpdate(inst, data, salt)
        /\ user' = NoInstance
        /\ UNCHANGED <<users, clock>>

\* ------------------------------------- ProfileSerializer and UserSerializer
ProfileSerializers == {"ProfileSerializer", "UserSerializer"}

MetaFields(serializer) ==
    IF serializer = "ProfileSerializer"
    THEN {"name", "email", "date_joined"}
    ELSE {"url", "name", "email", "date_joined"}

MetaReadOnlyFieldsOfCreate(serializer) == {"date_joined"}

MetaReadOnlyFields(serializer) == {"email", "date_joined"}

\* ModelSerializer.update: set every writable attribute the payload carries.
ModelUpdate(inst, data, serializer) ==
    LET writable == (MetaFields(serializer) \ MetaReadOnlyFields(serializer))
                    \cap DOMAIN data
    IN  [f \in DOMAIN inst |-> IF f \in writable THEN data[f] ELSE inst[f]]

\* is_valid() then save(): ModelSerializer.update saves the instance.
ProfileUpdate(inst, data, serializer) ==
    LET updated == ModelUpdate(inst, data, serializer)
    IN  /\ result = NoResult
        /\ result' = [op |-> "profile_update", serializer |-> serializer,
                      data |-> data, before |-> inst, natural_key |-> NoEmail,
                      email |-> NoEmail, errors |-> {}]
        /\ instance' = updated
        /\ users' = SaveRow(users, updated)
        /\ user' = NoInstance
        /\ UNCHANGED clock

\* ---------------------------------------- ResendConfirmationEmailSerializer
ResendLookupKey(email) == email

\* self.user after validate_email (NoInstance: the attribute is not set).
ResendUserOnSuccessOnly(table, email) ==
    LET found == get_by_natural_key(table, ResendLookupKey(email))
    IN  IF found = {} \/ \A u \in found : ~u.email_verification_required
        THEN NoInstance
        ELSE CHOOSE u \in found : TRUE

ResendUser(table, email) ==
    LET found == get_by_natural_key(table, ResendLookupKey(email))
    IN  IF found = {} THEN NoInstance ELSE CHOOSE u \in found : TRUE

ResendErrorsNoFlagCheck(table, email) ==
    IF get_by_natural_key(table, ResendLookupKey(email)) = {}
    THEN {<<"email", DoesNotExist>>}
    ELSE {}

ResendErrors(table, email) ==
    LET found == get_by_natural_key(table, ResendLookupKey(email))
    IN  IF found = {}
        THEN {<<"email", DoesNotExist>>}
        ELSE IF ~(CHOOSE u \in found : TRUE).email_verification_required
             THEN {<<"email", AlreadyVerified>>}
             ELSE {}

ResendConfirmation(data) ==
    /\ result = NoResult
    /\ result' = [op |-> "resend", data |-> data, before |-> NoInstance,
                  natural_key |-> ResendLookupKey(data.email),
                  email |-> IF ResendErrors(users, data.email) = {}
                            THEN data.email ELSE NoEmail,
                  errors |-> ResendErrors(users, data.email)]
    /\ user' = ResendUser(users, data.email)
    /\ instance' = NoInstance
    /\ UNCHANGED <<users, clock>>

\* ------------------------------------------------------- the environment
\* The holder of a serializer's instance persists it.
SaveInstance ==
    /\ result.op \notin {"none", "save"}
    /\ result.errors = {}
    /\ instance # NoInstance
    /\ users' = SaveRow(users, instance)
    /\ result' = [op |-> "save", data |-> NoData, before |-> instance,
                  natural_key |-> NoEmail, email |-> NoEmail, errors |-> {}]
    /\ user' = NoInstance
    /\ UNCHANGED <<instance, clock>>

\* The confirmation flow clears the verification flag.
ConfirmEmail(u) ==
    /\ result = NoResult
    /\ u.email_verification_required
    /\ users' = SaveRow(users, [u EXCEPT !.email_verification_required = FALSE])
    /\ result' = [op |-> "confirm", data |-> NoData, before |-> u,
                  natural_key |-> NoEmail, email |-> NoEmail, errors |-> {}]
    /\ instance' = NoInstance
    /\ user' = NoInstance
    /\ UNCHANGED clock

\* The request ends: the serializer and what it holds are discarded.
EndRequest ==
    /\ result # NoResult
    /\ result' = NoResult
    /\ instance' = NoInstance
    /\ user' = NoInstance
    /\ UNCHANGED <<users, clock>>

Init ==
    /\ users = {}
    /\ instance = NoInstance
    /\ user = NoInstance
    /\ clock = 0
    /\ result = NoResult

RegisterStep ==
    \E data \in [name : Names, email : Emails,
                 password : Passwords, password2 : Passwords] : Register(data)

UserCreateStep ==
    \E data \in [name : Names, email : Emails] : UserCreate(data)

PasswordChangeStep ==
    \E u \in users, salt \in Salts,
       data \in [old_password : Passwords, new_password : Passwords,
                 new_password2 : Passwords] : PasswordChange(u, data, salt)

PasswordResetStep ==
    \E u \in users, salt \in Salts,
       data \in [new_password : Passwords, new_password2 : Passwords] :
        PasswordReset(u, data, salt)

ProfileUpdateStep ==
    \E u \in users, serializer \in ProfileSerializers,
       data \in [name : Names, email : Emails, date_joined : SubmittedDates] :
        ProfileUpdate(u, data, serializer)

ResendConfirmationStep ==
    \E data \in [email : Emails] : ResendConfirmation(data)

ConfirmEmailStep == \E u \in users : ConfirmEmail(u)

Next ==
    \/ RegisterStep
    \/ UserCreateStep
    \/ PasswordChangeStep
    \/ PasswordResetStep
    \/ ProfileUpdateStep
    \/ ResendConfirmationStep
    \/ SaveInstance
    \/ ConfirmEmailStep
    \/ EndRequest

Spec == Init /\ [][Next]_vars

\* ------------------------------------------------------------- properties
PasswordOps == {"register", "password_change", "password_reset"}

SubmittedPassword(r) ==
    IF r.op = "register" THEN r.data.password ELSE r.data.new_password

SubmittedRepeat(r) ==
    IF r.op = "register" THEN r.data.password2 ELSE r.data.new_password2

MismatchError(r) ==
    IF r.op = "register" THEN <<"password2", PasswordsDoNotMatch>>
    ELSE <<"new_password2", NewPasswordsDoNotMatch>>

\* The password fields of r pass their own field validation.
PasswordFieldsValid(r) ==
    /\ SubmittedPassword(r).len >= min_length
    /\ SubmittedPassword(r).strong
    /\ SubmittedRepeat(r).len >= min_length

\* C1: a registration (or user creation) whose email equals a registered
\* email after lowercasing fails with the duplicate-email error; when no such
\* account exists validate_email raises no such error and returns the
\* lowercased email.
C1_DuplicateEmailRejected ==
    [][result'.op \in {"register", "user_create"} =>
        LET E == result'.data.email
            registered == \E u \in users : lower(u.email) = lower(E)
        IN  /\ registered => <<"email", AlreadyRegistered>> \in result'.errors
            /\ ~registered =>
                  /\ <<"email", AlreadyRegistered>> \notin result'.errors
                  /\ result'.email = lower(E)]_vars

C1_Witness ==
    /\ result.op = "register"
    /\ result.data.email # lower(result.data.email)
    /\ <<"email", AlreadyRegistered>> \in result.errors
    /\ \E u \in users : u.email = lower(result.data.email)

\* C2 (as claimed): no two accounts have emails equal after lowercasing, and
\* every operation that compares an email with the stored ones looks up the
\* lowercased email.
C2_UniqueAndNormalized ==
    /\ \A u, v \in users : lower(u.email) = lower(v.email) => u = v
    /\ \A u \in users : u.email = lower(u.email)
    /\ result.op \in {"register", "user_create", "resend"} =>
          result.natural_key = lower(result.data.email)

\* C3 (as claimed): a password change whose old_password does not verify
\* fails with the invalid-password error on old_password, whatever the new
\* password fields are.
C3_InvalidOldPasswordAlways ==
    (/\ result.op = "password_change"
     /\ ~check_password(result.before.password, result.data.old_password))
    => <<"old_password", InvalidPassword>> \in result.errors

\* C3 (amended): a password change whose old_password does not verify fails
\* and leaves the instance as it was; the error is the invalid-password error
\* on old_password exactly when the new password fields pass field validation
\* and match.
C3_InvalidOldPassword ==
    (/\ result.op = "password_change"
     /\ ~check_password(result.before.password, result.data.old_password))
    => /\ result.errors # {}
       /\ instance = result.before
       /\ IF /\ PasswordFieldsValid(result)
             /\ result.data.new_password = result.data.new_password2
          THEN result.errors = {<<"old_password", InvalidPassword>>}
          ELSE <<"old_password", InvalidPassword>> \notin result.errors

C3_Witness ==
    /\ result.op = "password_change"
    /\ result.before.password.hashed
    /\ result.data.old_password # result.before.password.raw
    /\ result.errors = {<<"old_password", InvalidPassword>>}

\* C4 (as claimed): in registration, password change and password reset a
\* submission whose password differs from its repeat gets the mismatch error
\* on the repeat field, and one whose two fields are equal never gets it.
C4_MismatchAlways ==
    result.op \in PasswordOps =>
       /\ SubmittedPassword(result) # SubmittedRepeat(result)
             => MismatchError(result) \in result.errors
       /\ SubmittedPassword(result) = SubmittedRepeat(result)
             => MismatchError(result) \notin result.errors

\* C4 (amended): a submission whose password differs from its repeat fails;
\* the mismatch error on the repeat field is raised exactly when the two
\* differ and every field passes its own validation (for registration, the
\* email is not registered), and then it is the only error.
C4_Mismatch ==
    result.op \in PasswordOps =>
       LET differ == SubmittedPassword(result) # SubmittedRepeat(result)
           fieldsOk ==
              /\ PasswordFieldsValid(result)
              /\ result.op = "register" =>
                    get_by_natural_key(users, lower(result.data.email)) = {}
       IN  /\ differ => result.errors # {}
           /\ MismatchError(result) \in result.errors <=> differ /\ fieldsOk
           /\ MismatchError(result) \in result.errors
                 => result.errors = {MismatchError(result)}

C4_Witness ==
    /\ result.op = "register"
    /\ result.data.password # result.data.password2
    /\ result.errors = {<<"password2", PasswordsDoNotMatch>>}

C6_NeverPlaintext ==
    (result.op \in PasswordOps /\ result.errors = {}) =>
       /\ instance.password.hashed
       /\ check_password(instance.password, SubmittedPassword(result))

\* C7: a profile write through ProfileSerializer or UserSerializer changes
\* nothing but the name of the account it is given.
C7_ProfileReadOnly ==
    [][result'.op = "profile_update" =>
        LET b == result'.before
        IN  /\ b \in users
            /\ instance'.email = b.email
            /\ instance'.date_joined = b.date_joined
            /\ users' = (users \ {b})
                         \cup {[b EXCEPT !.name = result'.data.name]}]_vars

C7_Witness ==
    /\ result.op = "profile_update"
    /\ result.serializer = "UserSerializer"
    /\ result.data.email # result.before.email
    /\ result.data.date_joined # result.before.date_joined
    /\ result.data.name # result.before.name
    /\ instance.name = result.data.name
    /\ instance \in users

\* C8 (as claimed): after a successful password change or reset the persisted
\* account verifies new_password and no longer verifies a different previous
\* password.
C8_StoredHashReplaced ==
    (result.op \in {"password_change", "password_reset"}
       /\ result.errors = {}) =>
       LET stored == ByPk(users, result.before.pk).password
       IN  /\ check_password(stored, result.data.new_password)
           /\ \A old \in Passwords :
                 (old # result.data.new_password
                    /\ check_password(result.before.password, old))
                 => ~check_password(stored, old)

\* C9 (as claimed): the user attribute is set if and only if validation
\* succeeded.
C9_UserOnlyOnSuccess ==
    result.op = "resend" => (user # NoInstance <=> result.errors = {})

\* C9 (amended): the user attribute is set if and only if an account with the
\* submitted email was found, so on success and on the already-verified
\* error, and never on the not-found error; when set it is that account.
C9_UserWhenFound ==
    result.op = "resend" =>
       /\ user # NoInstance
             <=> get_by_natural_key(users, result.data.email) # {}
       /\ user # NoInstance => user \in users /\ user.email = result.data.email
       /\ result.errors = {} => user # NoInstance
       /\ <<"email", AlreadyVerified>> \in result.errors => user # NoInstance
       /\ <<"email", DoesNotExist>> \in result.errors => user = NoInstance

C9_Witness ==
    /\ result.op = "resend"
    /\ result.errors = {<<"email", AlreadyVerified>>}
    /\ user \in users
    /\ user.email = result.data.email

\* C10: a submission that ends in a validation error changes no account in
\* the table and leaves the instance it was given as it was.
C10_ErrorsChangeNothing ==
    [][result'.errors # {} =>
          /\ users' = users
          /\ instance' = result'.before]_vars

C10_Witness ==
    /\ result.op = "password_change"
    /\ <<"old_password", InvalidPassword>> \in result.errors
    /\ result.before \in users
    /\ instance = result.before
====
